---- MODULE Spec2Model ----
(***************************************************************************)
(* Eligibility evaluation core of the CKD financial-aid expert system.     *)
(*                                                                         *)
(* State: the persisted Prolog knowledge-base file (log), the facts the    *)
(* Prolog engine of ApplicationDenialExplainer has consulted (kb), and the *)
(* value produced by the most recently executed operation (result).  The   *)
(* Streamlit front end adds st.session_state (session); hash_seed is the   *)
(* string-hash seed of the Python process, which fixes the iteration       *)
(* order of its sets.                                                      *)
(*                                                                         *)
(* A Prolog term is a record [t, n, a, q]: an integer (t = "int", n), an   *)
(* atom (t = "atom", a; q tells whether it is written in single quotes),   *)
(* or no term (t = "none").  A line of the file is [kind, pred, subj, val].*)
(* An absent file is the empty sequence of lines.                          *)
(***************************************************************************)
EXTENDS Integers, Sequences, FiniteSets, TLC

VARIABLES log, kb, result, session, hash_seed

vars == <<log, kb, result, session, hash_seed>>

----------------------------------------------------------------------------
(* Terms and lines *)

IntTerm(n) == [t |-> "int", n |-> n, a |-> "", q |-> FALSE]

AtomTerm(s) == [t |-> "atom", n |-> 0, a |-> s, q |-> FALSE]

QuotedTerm(s) == [t |-> "atom", n |-> 0, a |-> s, q |-> TRUE]

NoTerm == [t |-> "none", n |-> 0, a |-> "", q |-> FALSE]

FactLine(pred, subj, val) == [kind |-> "fact", pred |-> pred, subj |-> subj, val |-> val]

PersonLine(subj) == FactLine("person", subj, NoTerm)

CommentLine(text) == [kind |-> "comment", pred |-> text, subj |-> "", val |-> NoTerm]

\* The rule section of the shipped knowledge-base file (eligible_for_* rules).
RuleBaseLine == [kind |-> "rules", pred |-> "rule base", subj |-> "", val |-> NoTerm]

NewKnowledgeBlock == CommentLine("% New Knowledge Block")

----------------------------------------------------------------------------
(* Bounds and input sets *)

\* Largest number of fact lines appended to the file by add_to_knowledge_base.
MaxAdded == 1

Persons == {"p1", "p2"}

Ages == {40, 41, 60, 61}

Incomes == {14999, 15000, 17999, 18000, 19999, 20000, 24999, 25000, 30000, 30001, 40000}

AtomValues ==
  [ health_condition     |-> {"stage_3_ckd", "stage_4_ckd", "stage_5_ckd"},
    marital_status       |-> {"single", "married"},
    location             |-> {"colombo", "anuradhapura"},
    education            |-> {"primary", "secondary"},
    chronic_condition    |-> {"yes", "no"},
    access_to_healthcare |-> {"yes", "no"},
    family_structure     |-> {"nuclear", "extended"},
    gender               |-> {"female", "male"},
    profession           |-> {"part_time_tea_plucker", "farmer"} ]

Counts == {0, 2}

\* Every attribute fact about the fully described person p1.
AttributeFacts(p) ==
  {FactLine("age", p, IntTerm(n)) : n \in Ages}
    \cup {FactLine("monthly_income", p, IntTerm(n)) : n \in Incomes}
    \cup {FactLine("dependent_children", p, IntTerm(n)) : n \in Counts}
    \cup {FactLine("children", p, IntTerm(n)) : n \in Counts}
    \cup UNION {{FactLine(pr, p, AtomTerm(v)) : v \in AtomValues[pr]} : pr \in DOMAIN AtomValues}

\* Facts a knowledge-base file may already hold when the system starts.
StoredFacts ==
  AttributeFacts("p1")
    \cup {PersonLine("p2"), FactLine("age", "p2", IntTerm(40)), FactLine("monthly_income", "p2", IntTerm(40000))}

\* Files the system may start from: the rule base followed by up to two facts.
InitialLogs ==
  {<<RuleBaseLine>>}
    \cup {<<RuleBaseLine, f>> : f \in StoredFacts \cup {PersonLine("p1")}}
    \cup {<<RuleBaseLine, PersonLine("p1"), f>> : f \in StoredFacts}

\* Facts the extractor may hand to add_to_knowledge_base.
ExtractedFacts ==
  { PersonLine("p1"), PersonLine("p2"),
    FactLine("age", "p1", IntTerm(40)),
    FactLine("monthly_income", "p1", IntTerm(40000)),
    FactLine("monthly_income", "p1", IntTerm(14999)),
    FactLine("marital_status", "p1", AtomTerm("married")),
    FactLine("health_condition", "p1", AtomTerm("stage_4_ckd")),
    FactLine("location", "p1", QuotedTerm("North Central")) }

Batches == UNION {[1..n -> ExtractedFacts] : n \in 1..MaxAdded}

\* The generator on its own: the number of facts it may write, the facts it
\* is handed, and the extracted fact whose argument is quoted.
MaxWritten == 2

GeneratorFacts ==
  {PersonLine("p1"), FactLine("age", "p1", IntTerm(40)),
   FactLine("monthly_income", "p1", IntTerm(40000))}

MalformedFact == FactLine("location", "p1", QuotedTerm("North Central"))

InsertAt(seq, k, x) == SubSeq(seq, 1, k) \o <<x>> \o SubSeq(seq, k + 1, Len(seq))

\* Lists handed to add_to_knowledge_base: up to n well-formed facts, with the
\* malformed fact at any one position or not at all.
GeneratorBatches(n) ==
  LET clean == UNION {[1..m -> GeneratorFacts] : m \in 0..n}
  IN  (clean \ {<<>>})
        \cup UNION {{InsertAt(b, k, MalformedFact) : k \in 0..Len(b)} : b \in clean}

\* Texts the language model may return for one prompt (temperature 0.3).
LlmTexts == {"llm_text_1", "llm_text_2"}

----------------------------------------------------------------------------
(* The Prolog engine: consulting the file and querying facts *)

\* Reading a term drops its quotes: 'yes' and yes are the same atom.
read_term(val) == [val EXCEPT !.q = FALSE]

\* Variant: reading stops at the first "% New Knowledge Block" line.
load_facts_before_block(lines) ==
  LET blocks == {i \in DOMAIN lines : lines[i].kind = "comment"
                                        /\ lines[i].pred = "% New Knowledge Block"}
      read   == IF blocks = {} THEN lines
                ELSE SubSeq(lines, 1, (CHOOSE i \in blocks : \A j \in blocks : i <= j) - 1)
      kept   == SelectSeq(read, LAMBDA l : l.kind \in {"fact", "rules"})
  IN  [i \in DOMAIN kept |-> [kept[i] EXCEPT !.val = read_term(@)]]

RECURSIVE load_facts(_)
\* consult(prolog_file_path): the clauses of the file, in file order; the
\* rule section is kept as one entry, comment lines are skipped.
load_facts(lines) ==
  IF lines = <<>> THEN <<>>
  ELSE (IF Head(lines).kind = "fact"
          THEN <<[Head(lines) EXCEPT !.val = read_term(@)]>>
          ELSE IF Head(lines).kind = "rules" THEN <<Head(lines)>> ELSE <<>>)
         \o load_facts(Tail(lines))

\* The consulted file held the rule section, which defines eligible_for_*,
\* rural_area and document_check and declares the fact predicates.
has_rule_base(kbx) == \E i \in DOMAIN kbx : kbx[i].kind = "rules"

\* Without the rule section a query of a predicate that has no clause is an
\* unknown-procedure error: person(name) when no person fact was loaded,
\* eligible_for_<program>(name) and document_check(name) always.
prolog_error(kbx, name) ==
  /\ ~has_rule_base(kbx)
  /\ \/ \A i \in DOMAIN kbx : kbx[i].pred # "person"
     \/ \E i \in DOMAIN kbx : kbx[i].pred = "person" /\ kbx[i].subj = name

RECURSIVE query(_, _, _)
\* list(prolog.query("pred(name, X)")): the values X, in clause order.
query(kbx, pred, name) ==
  IF kbx = <<>> THEN <<>>
  ELSE (IF Head(kbx).pred = pred /\ Head(kbx).subj = name
          THEN <<Head(kbx).val>>
          ELSE <<>>) \o query(Tail(kbx), pred, name)

Range(seq) == {seq[i] : i \in DOMAIN seq}

\* Variant: any fact about name counts as the person being known.
person_exists_any_fact(kbx, name) == \E i \in DOMAIN kbx : kbx[i].subj = name

\* person(name) has a solution.
person_exists(kbx, name) == query(kbx, "person", name) # <<>>

\* Variant: the check is written as "not above n" and so also fires when
\* there is no fact of the predicate.
check_le_or_absent(kbx, pred, name, n) ==
  ~\E v \in Range(query(kbx, pred, name)) : v.t = "int" /\ v.n > n

\* Variant: strict comparison, "X < n".
check_lt(kbx, pred, name, n) ==
  \E v \in Range(query(kbx, pred, name)) : v.t = "int" /\ v.n < n

\* "pred(name, X), X =< n" has a solution.
check_le(kbx, pred, name, n) ==
  \E v \in Range(query(kbx, pred, name)) : v.t = "int" /\ v.n <= n

\* Variant: strict comparison, "X > n".
check_gt(kbx, pred, name, n) ==
  \E v \in Range(query(kbx, pred, name)) : v.t = "int" /\ v.n > n

\* Variant: only the first value recorded for the pair is compared.
check_ge_first(kbx, pred, name, n) ==
  /\ query(kbx, pred, name) # <<>>
  /\ query(kbx, pred, name)[1].t = "int"
  /\ query(kbx, pred, name)[1].n >= n

\* "pred(name, X), X >= n" has a solution.
check_ge(kbx, pred, name, n) ==
  \E v \in Range(query(kbx, pred, name)) : v.t = "int" /\ v.n >= n

\* "pred(name, X), X =:= 0" has a solution.
check_zero(kbx, pred, name) ==
  \E v \in Range(query(kbx, pred, name)) : v.t = "int" /\ v.n = 0

\* "pred(name, X), X \= a1, X \= a2, ..." has a solution.
check_differs(kbx, pred, name, atoms) ==
  \E v \in Range(query(kbx, pred, name)) : ~(v.t = "atom" /\ v.a \in atoms)

\* "pred(name, X), X = a" has a solution.
check_is(kbx, pred, name, atom) ==
  \E v \in Range(query(kbx, pred, name)) : v.t = "atom" /\ v.a = atom

\* Locations the rule base declares rural (rural_area/1).
RuralAreas == {"anuradhapura"}

rural_area(val) == val.t = "atom" /\ val.a \in RuralAreas

\* "location(name, L), \+ rural_area(L)" has a solution.
check_not_rural(kbx, name) ==
  \E v \in Range(query(kbx, "location", name)) : ~rural_area(v)

----------------------------------------------------------------------------
(* The rule base: eligible_for_<program>(name).  Eligibility is the        *)
(* default and is revoked only by a fact that matches a disqualifying      *)
(* condition of the program.                                               *)

Values(kbx, pred, name) == {f.val : f \in {g \in Range(kbx) : g.pred = pred /\ g.subj = name}}

IncomeAtLeast(kbx, name, n) == \E v \in Values(kbx, "monthly_income", name) : v.n >= n

AgeAtMost(kbx, name, n) == \E v \in Values(kbx, "age", name) : v.n <= n

IsZero(kbx, pred, name) == \E v \in Values(kbx, pred, name) : v.t = "int" /\ v.n = 0

OtherThan(kbx, pred, name, atoms) == \E v \in Values(kbx, pred, name) : v.a \notin atoms

NotRural(kbx, name) == \E v \in Values(kbx, "location", name) : v.a \notin RuralAreas

disqualified(kbx, program, name) ==
  CASE program = "suwa_ckd_aid" ->
         \/ AgeAtMost(kbx, name, 40)
         \/ OtherThan(kbx, "health_condition", name, {"stage_4_ckd", "stage_5_ckd"})
         \/ IncomeAtLeast(kbx, name, 25000)
    [] program = "diriya_support" ->
         \/ OtherThan(kbx, "marital_status", name, {"single"})
         \/ IsZero(kbx, "dependent_children", name)
         \/ IncomeAtLeast(kbx, name, 20000)
    [] program = "thurunu_piyasa" ->
         \/ NotRural(kbx, name)
         \/ OtherThan(kbx, "education", name, {"primary"})
         \/ IncomeAtLeast(kbx, name, 15000)
    [] program = "sahana_healthcare" ->
         \/ OtherThan(kbx, "chronic_condition", name, {"yes"})
         \/ \E v \in Values(kbx, "access_to_healthcare", name) : v.a = "yes"
         \/ IncomeAtLeast(kbx, name, 20000)
    [] program = "divisaviya_income_support" ->
         \/ IncomeAtLeast(kbx, name, 15000)
         \/ OtherThan(kbx, "family_structure", name, {"nuclear"})
    [] program = "nirmala_empowerment" ->
         \/ OtherThan(kbx, "gender", name, {"female"})
         \/ OtherThan(kbx, "marital_status", name, {"single"})
         \/ IncomeAtLeast(kbx, name, 18000)
    [] program = "daruwan_suraksha" ->
         \/ IsZero(kbx, "children", name)
         \/ IsZero(kbx, "dependent_children", name)
         \/ IncomeAtLeast(kbx, name, 20000)
    [] program = "govi_jana_support" ->
         \/ OtherThan(kbx, "profession", name, {"part_time_tea_plucker"})
         \/ NotRural(kbx, name)
         \/ IncomeAtLeast(kbx, name, 18000)
    [] program = "arogya_elderly_care" ->
         \/ AgeAtMost(kbx, name, 60)
         \/ IncomeAtLeast(kbx, name, 20000)

\* list(prolog.query("eligible_for_<program>(name)")) is non-empty.
eligible_for(kbx, program, name) == ~disqualified(kbx, program, name)

----------------------------------------------------------------------------
(* ApplicationDenialExplainer.analyze_eligibility *)

all_programs ==
  << "suwa_ckd_aid", "diriya_support", "thurunu_piyasa", "sahana_healthcare",
     "divisaviya_income_support", "nirmala_empowerment", "daruwan_suraksha",
     "govi_jana_support", "arogya_elderly_care" >>

\* A denial reason "Ineligible for <program>: <text>"; program "" when the
\* reason carries no program prefix, value the fact value the text quotes.
Reason(program, text, value) == [program |-> program, text |-> text, value |-> value]

\* Variant: the reason text names the first program whatever the program is.
reason_if_first_program(fired, program, text) ==
  IF fired THEN <<Reason("suwa_ckd_aid", text, NoTerm)>> ELSE <<>>

\* denial_reasons.append(...) when the check's query list is non-empty.
reason_if(fired, program, text) ==
  IF fired THEN <<Reason(program, text, NoTerm)>> ELSE <<>>

\* The "if program == ..." chain: the reasons one non-eligible program adds.
program_reasons(kbx, name, program) ==
  CASE program = "suwa_ckd_aid" ->
         reason_if(check_le(kbx, "age", name, 40), program, "Age is 40 or below")
         \o reason_if(check_differs(kbx, "health_condition", name, {"stage_4_ckd", "stage_5_ckd"}),
                      program, "CKD stage does not meet criteria")
         \o reason_if(check_ge(kbx, "monthly_income", name, 25000), program,
                      "Monthly income exceeds LKR 25,000")
    [] program = "diriya_support" ->
         reason_if(check_differs(kbx, "marital_status", name, {"single"}), program,
                   "Not a single parent")
         \o reason_if(check_zero(kbx, "dependent_children", name), program, "No dependent children")
         \o reason_if(check_ge(kbx, "monthly_income", name, 20000), program,
                      "Monthly income exceeds LKR 20,000")
    [] program = "thurunu_piyasa" ->
         reason_if(check_not_rural(kbx, name), program, "Not in a rural area")
         \o reason_if(check_differs(kbx, "education", name, {"primary"}), program,
                      "Education level does not meet criteria")
         \o reason_if(check_ge(kbx, "monthly_income", name, 15000), program,
                      "Monthly income exceeds LKR 15,000")
    [] program = "sahana_healthcare" ->
         reason_if(check_differs(kbx, "chronic_condition", name, {"yes"}), program,
                   "No chronic condition")
         \o reason_if(check_is(kbx, "access_to_healthcare", name, "yes"), program,
                      "Already has healthcare access")
         \o reason_if(check_ge(kbx, "monthly_income", name, 20000), program,
                      "Monthly income exceeds LKR 20,000")
    [] program = "divisaviya_income_support" ->
         reason_if(check_ge(kbx, "monthly_income", name, 15000), program,
                   "Monthly income exceeds LKR 15,000")
         \o reason_if(check_differs(kbx, "family_structure", name, {"nuclear"}), program,
                      "Family structure does not meet criteria")
    [] program = "nirmala_empowerment" ->
         reason_if(check_differs(kbx, "gender", name, {"female"}), program, "Not female")
         \o reason_if(check_differs(kbx, "marital_status", name, {"single"}), program, "Not single")
         \o reason_if(check_ge(kbx, "monthly_income", name, 18000), program,
                      "Monthly income exceeds LKR 18,000")
    [] program = "daruwan_suraksha" ->
         reason_if(check_zero(kbx, "children", name), program, "No children")
         \o reason_if(check_zero(kbx, "dependent_children", name), program, "No dependent children")
         \o reason_if(check_ge(kbx, "monthly_income", name, 20000), program,
                      "Monthly income exceeds LKR 20,000")
    [] program = "govi_jana_support" ->
         reason_if(check_differs(kbx, "profession", name, {"part_time_tea_plucker"}), program,
                   "Not a part-time tea plucker")
         \o reason_if(check_not_rural(kbx, name), program, "Not in a rural area")
         \o reason_if(check_ge(kbx, "monthly_income", name, 18000), program,
                      "Monthly income exceeds LKR 18,000")
    [] program = "arogya_elderly_care" ->
         reason_if(check_le(kbx, "age", name, 60), program, "Age is 60 or below")
         \o reason_if(check_ge(kbx, "monthly_income", name, 20000), program,
                      "Monthly income exceeds LKR 20,000")
    [] OTHER -> <<>>

\* Variant: denial_reasons is kept from the previous call instead of reset.
stale_lists ==
  [eligible_programs |-> <<>>, non_eligible_programs |-> <<>>,
   denial_reasons |-> IF result.op = "analyze_eligibility" THEN result.denial_reasons ELSE <<>>]

\* The lists before the loop over all_programs.
empty_lists ==
  [eligible_programs |-> <<>>, non_eligible_programs |-> <<>>, denial_reasons |-> <<>>]

\* Variant: an eligible program is not recorded.
loop_body_drop_eligible(kbx, name, program, acc) ==
  IF eligible_for(kbx, program, name)
    THEN acc
    ELSE [acc EXCEPT !.non_eligible_programs = Append(@, program),
                     !.denial_reasons = @ \o program_reasons(kbx, name, program)]

\* Variant: a non-eligible program is recorded in both lists.
loop_body_both(kbx, name, program, acc) ==
  IF eligible_for(kbx, program, name)
    THEN [acc EXCEPT !.eligible_programs = Append(@, program)]
    ELSE [acc EXCEPT !.eligible_programs = Append(@, program),
                     !.non_eligible_programs = Append(@, program),
                     !.denial_reasons = @ \o program_reasons(kbx, name, program)]

\* Variant: programs are inserted at the front of the lists.
loop_body_prepend(kbx, name, program, acc) ==
  IF eligible_for(kbx, program, name)
    THEN [acc EXCEPT !.eligible_programs = <<program>> \o @]
    ELSE [acc EXCEPT !.non_eligible_programs = <<program>> \o @,
                     !.denial_reasons = @ \o program_reasons(kbx, name, program)]

\* One iteration of "for program, query in all_programs".
loop_body(kbx, name, program, acc) ==
  IF eligible_for(kbx, program, name)
    THEN [acc EXCEPT !.eligible_programs = Append(@, program)]
    ELSE [acc EXCEPT !.non_eligible_programs = Append(@, program),
                     !.denial_reasons = @ \o program_reasons(kbx, name, program)]

RECURSIVE for_programs_short(_, _, _, _)
\* Variant: the loop stops before the last program.
for_programs_short(kbx, name, i, acc) ==
  IF i > Len(all_programs) - 1 THEN acc
  ELSE for_programs_short(kbx, name, i + 1, loop_body(kbx, name, all_programs[i], acc))

RECURSIVE for_programs(_, _, _, _)
\* The loop from its i-th iteration on.
for_programs(kbx, name, i, acc) ==
  IF i > Len(all_programs) THEN acc
  ELSE for_programs(kbx, name, i + 1, loop_body(kbx, name, all_programs[i], acc))

\* Variant: eligible overall only when eligible for every program.
overall_eligible_all(eligible_programs) == Len(eligible_programs) = Len(all_programs)

\* "is_eligible": len(eligible_programs) > 0
overall_eligible(eligible_programs) == Len(eligible_programs) > 0

\* What the explanation chain may do: return a text, or raise.
LlmOutcomes == LlmTexts \cup {"llm_error"}

\* generate_denial_explanation with its four arguments: the model's text, or
\* the apology of the except branch.
generate_denial_explanation(name, denial_reasons, eligible_programs, non_eligible_programs, llm) ==
  IF llm = "llm_error" THEN "apology" ELSE llm

NoResult ==
  [op |-> "none", name |-> "", status |-> "none", error |-> "", keys |-> {},
   is_eligible |-> FALSE, eligible_programs |-> <<>>, non_eligible_programs |-> <<>>,
   denial_reasons |-> <<>>, explanation |-> "", prolog_facts |-> <<>>,
   application_data |-> <<>>, application |-> ""]

PersonNotFound == Reason("", "Person not found in the system", NoTerm)

\* Python's None and a present value: an empty and a one-element sequence.
None == <<>>

Some(value) == <<value>>

\* st.session_state after CKDFinancialAidExpertSystem.__init__ ran first.
NoSession ==
  [patient_name |-> None, patient_facts |-> None, application_status |-> None,
   eligibility_result |-> None, patient_missing_info |-> <<>>]

EligibilityKeys ==
  {"is_eligible", "eligible_programs", "non_eligible_programs", "denial_reasons", "explanation"}

\* The dictionary analyze_eligibility(name) returns.
eligibility_result(kbx, name, llm) ==
  IF prolog_error(kbx, name)
    THEN [NoResult EXCEPT !.op = "analyze_eligibility", !.name = name,
                          !.status = "raised", !.error = "PrologError"]
    ELSE IF ~person_exists(kbx, name)
    THEN [NoResult EXCEPT !.op = "analyze_eligibility", !.name = name,
                          !.status = "returned", !.keys = EligibilityKeys,
                          !.denial_reasons = <<PersonNotFound>>,
                          !.explanation = "No record exists for this individual in our database."]
    ELSE LET acc == for_programs(kbx, name, 1, empty_lists)
         IN  [NoResult EXCEPT !.op = "analyze_eligibility", !.name = name,
                              !.status = "returned", !.keys = EligibilityKeys,
                              !.is_eligible = overall_eligible(acc.eligible_programs),
                              !.eligible_programs = acc.eligible_programs,
                              !.non_eligible_programs = acc.non_eligible_programs,
                              !.denial_reasons = acc.denial_reasons,
                              !.explanation =
                                 generate_denial_explanation(name, acc.denial_reasons,
                                    acc.eligible_programs, acc.non_eligible_programs, llm)]

analyze_eligibility(name) ==
  /\ \E llm \in LlmOutcomes : result' = eligibility_result(kb, name, llm)
  /\ UNCHANGED <<log, kb, session, hash_seed>>

----------------------------------------------------------------------------
(* ApplicationDenialExplainer.analyze_application_denial *)

RECURSIVE select_gt(_, _)
\* The solutions of "monthly_income(name, Income), Income > n".
select_gt(values, n) ==
  IF values = <<>> THEN <<>>
  ELSE (IF Head(values).t = "int" /\ Head(values).n > n THEN <<Head(values)>> ELSE <<>>)
         \o select_gt(Tail(values), n)

RECURSIVE select_differs(_, _)
\* The solutions of "health_condition(name, C), C \= a1, C \= a2".
select_differs(values, atoms) ==
  IF values = <<>> THEN <<>>
  ELSE (IF ~(Head(values).t = "atom" /\ Head(values).a \in atoms) THEN <<Head(values)>> ELSE <<>>)
         \o select_differs(Tail(values), atoms)

required_predicates == <<"monthly_income", "health_condition", "access_to_healthcare">>

RECURSIVE missing_data(_, _, _)
\* "Missing required data: <predicate>(name, _)" for each required predicate
\* whose query has no solution.
missing_data(kbx, name, i) ==
  IF i > Len(required_predicates) THEN <<>>
  ELSE (IF query(kbx, required_predicates[i], name) = <<>>
          THEN <<Reason("", "Missing required data", AtomTerm(required_predicates[i]))>>
          ELSE <<>>) \o missing_data(kbx, name, i + 1)

\* The list denial_reasons as it stands when "if denial_reasons:" is reached.
\* The document check "document_check(name) -> false" has no solution.
collected_denial_reasons(kbx, name) ==
  LET income_query == select_gt(query(kbx, "monthly_income", name), 30000)
      stage_query  == select_differs(query(kbx, "health_condition", name),
                                     {"stage_4_ckd", "stage_5_ckd"})
  IN  (IF income_query # <<>>
         THEN <<Reason("", "Monthly income exceeds LKR 30,000 threshold (Current income: {} LKR)",
                       income_query[1])>>
         ELSE <<>>)
      \o (IF stage_query # <<>>
            THEN <<Reason("", "CKD stage does not meet program criteria (Current stage: {})",
                          stage_query[1])>>
            ELSE <<>>)
      \o (IF check_is(kbx, "access_to_healthcare", name, "yes")
            THEN <<Reason("", "Patient already has access to healthcare services", NoTerm)>>
            ELSE <<>>)
      \o missing_data(kbx, name, 1)

DenialKeys == {"is_eligible", "denial_reasons", "explanation"}

\* The outcome of analyze_application_denial(name): a returned dictionary, or
\* the TypeError of calling generate_denial_explanation with one argument.
denial_result(kbx, name) ==
  IF prolog_error(kbx, name)
    THEN [NoResult EXCEPT !.op = "analyze_application_denial", !.name = name,
                          !.status = "raised", !.error = "PrologError"]
    ELSE IF ~person_exists(kbx, name)
    THEN [NoResult EXCEPT !.op = "analyze_application_denial", !.name = name,
                          !.status = "returned", !.keys = DenialKeys,
                          !.denial_reasons = <<PersonNotFound>>,
                          !.explanation = "No record exists for this individual in our database."]
    ELSE IF collected_denial_reasons(kbx, name) # <<>>
      THEN [NoResult EXCEPT !.op = "analyze_application_denial", !.name = name,
                            !.status = "raised", !.error = "TypeError"]
      ELSE [NoResult EXCEPT !.op = "analyze_application_denial", !.name = name,
                            !.status = "returned", !.keys = {"is_eligible", "denial_reasons"},
                            !.is_eligible = TRUE]

analyze_application_denial(name) ==
  /\ result' = denial_result(kb, name)
  /\ UNCHANGED <<log, kb, session, hash_seed>>

----------------------------------------------------------------------------
(* ApplicationGenerator.generate_application *)

\* The predicates queried for the application and the keys they fill.
queries ==
  << [predicate |-> "age",                key |-> "age"],
     [predicate |-> "gender",             key |-> "gender"],
     [predicate |-> "location",           key |-> "location"],
     [predicate |-> "marital_status",     key |-> "marital_status"],
     [predicate |-> "dependent_children", key |-> "children_count"],
     [predicate |-> "elderly_dependents", key |-> "elderly_dependent_count"],
     [predicate |-> "monthly_income",     key |-> "monthly_income"],
     [predicate |-> "health_condition",   key |-> "ckd_stage"] >>

RECURSIVE application_data(_, _, _)
\* The entries of application_data filled from the store, in query order:
\* the first solution of each query that has one.  (The full_name entries
\* are functions of name alone and are carried by result.name.)
application_data(kbx, name, i) ==
  IF i > Len(queries) THEN <<>>
  ELSE (IF query(kbx, queries[i].predicate, name) # <<>>
          THEN <<[key |-> queries[i].key,
                  value |-> query(kbx, queries[i].predicate, name)[1]]>>
          ELSE <<>>) \o application_data(kbx, name, i + 1)

\* Without the rule section, person(name) or a detail query of a predicate
\* that has no clause is an unknown-procedure error.
generate_prolog_error(kbx, name) ==
  /\ ~has_rule_base(kbx)
  /\ \/ \A i \in DOMAIN kbx : kbx[i].pred # "person"
     \/ /\ person_exists(kbx, name)
        /\ \E q \in DOMAIN queries :
             \A i \in DOMAIN kbx : kbx[i].pred # queries[q].predicate

ApplicationKeys == {"application_data", "application"}

NotFoundApplicationKeys ==
  {"is_eligible", "denial_reasons", "explanation", "application_data", "application"}

\* The dictionary generate_application(name) returns.
application_result(kbx, name, llm) ==
  IF generate_prolog_error(kbx, name)
    THEN [NoResult EXCEPT !.op = "generate_application", !.name = name,
                          !.status = "raised", !.error = "PrologError"]
    ELSE IF ~person_exists(kbx, name)
    THEN [NoResult EXCEPT !.op = "generate_application", !.name = name,
                          !.status = "returned", !.keys = NotFoundApplicationKeys,
                          !.denial_reasons = <<PersonNotFound>>,
                          !.explanation = "No record exists for this individual in our database.",
                          !.application = "No application could be generated."]
    ELSE [NoResult EXCEPT !.op = "generate_application", !.name = name,
                          !.status = "returned", !.keys = ApplicationKeys,
                          !.application_data = application_data(kbx, name, 1),
                          !.application = IF llm = "llm_error"
                                            THEN "Application generation error"
                                            ELSE llm]

\* Variant: the generator consults the file again on every call.
generate_application_reload(name) ==
  /\ \E llm \in LlmOutcomes : result' = application_result(kb, name, llm)
  /\ kb' = load_facts(log)
  /\ UNCHANGED <<log, session, hash_seed>>

generate_application(name) ==
  /\ \E llm \in LlmOutcomes : result' = application_result(kb, name, llm)
  /\ UNCHANGED <<log, kb, session, hash_seed>>

----------------------------------------------------------------------------
(* AdvancedPrologKnowledgeBaseGenerator: the knowledge-base file *)

HeaderLines == <<CommentLine("% Prolog Knowledge Base"), CommentLine("% Created: file name")>>

\* Variant: the file is opened for writing whether or not it exists.
initialize_prolog_file_always ==
  /\ log' = HeaderLines
  /\ result' = [NoResult EXCEPT !.op = "_initialize_prolog_file", !.status = "returned"]
  /\ UNCHANGED <<kb, session, hash_seed>>

\* Construction of a generator: the file is created with its header only
\* when it does not exist.
initialize_prolog_file ==
  /\ log' = IF log = <<>> THEN HeaderLines ELSE log
  /\ result' = [NoResult EXCEPT !.op = "_initialize_prolog_file", !.status = "returned"]
  /\ UNCHANGED <<kb, session, hash_seed>>

\* Variant: every line handed in counts as well formed.
validate_prolog_syntax_any(line) == line.kind = "fact"

\* The fact pattern accepts lower-case, digit and underscore arguments only.
validate_prolog_syntax(line) == line.kind = "fact" /\ ~line.val.q

RECURSIVE valid_facts(_)
valid_facts(prolog_facts) ==
  IF prolog_facts = <<>> THEN <<>>
  ELSE (IF validate_prolog_syntax(Head(prolog_facts)) THEN <<Head(prolog_facts)>> ELSE <<>>)
         \o valid_facts(Tail(prolog_facts))

\* The number of fact lines written after the first "% New Knowledge Block".
AddedFacts(lines) ==
  Cardinality({i \in DOMAIN lines :
                 /\ lines[i].kind = "fact"
                 /\ \E j \in 1..(i - 1) : lines[j] = NewKnowledgeBlock})

RECURSIVE without_pairs(_, _)
\* The lines that are not facts of one of the (predicate, subject) pairs.
without_pairs(lines, pairs) ==
  IF lines = <<>> THEN <<>>
  ELSE (IF Head(lines).kind = "fact" /\ <<Head(lines).pred, Head(lines).subj>> \in pairs
          THEN <<>>
          ELSE <<Head(lines)>>) \o without_pairs(Tail(lines), pairs)

\* Variant: a fact written for a pair replaces the facts the file holds for it.
add_to_knowledge_base_overwrite(prolog_facts) ==
  /\ log' = IF valid_facts(prolog_facts) = <<>>
              THEN log
              ELSE without_pairs(log, {<<f.pred, f.subj>> : f \in Range(valid_facts(prolog_facts))})
                     \o <<NewKnowledgeBlock>> \o valid_facts(prolog_facts)
  /\ result' = [NoResult EXCEPT !.op = "add_to_knowledge_base", !.status = "returned",
                                !.prolog_facts = prolog_facts]
  /\ UNCHANGED <<kb, session, hash_seed>>

add_to_knowledge_base(prolog_facts) ==
  /\ log' = IF valid_facts(prolog_facts) = <<>>
              THEN log
              ELSE log \o <<NewKnowledgeBlock>> \o valid_facts(prolog_facts)
  /\ result' = [NoResult EXCEPT !.op = "add_to_knowledge_base", !.status = "returned",
                                !.prolog_facts = prolog_facts]
  /\ UNCHANGED <<kb, session, hash_seed>>

\* Prolog().consult(prolog_file_path) of a newly constructed explainer.
consult ==
  /\ kb' = load_facts(log)
  /\ result' = [NoResult EXCEPT !.op = "consult", !.status = "returned"]
  /\ UNCHANGED <<log, session, hash_seed>>

----------------------------------------------------------------------------
(* The system *)

Init ==
  /\ log \in InitialLogs
  /\ kb = load_facts(log)
  /\ result = NoResult
  /\ session = NoSession
  /\ hash_seed = 1

Next ==
  \/ \E name \in Persons : analyze_eligibility(name)
  \/ \E name \in Persons : analyze_application_denial(name)
  \/ \E name \in Persons : generate_application(name)
  \/ initialize_prolog_file
  \/ \E prolog_facts \in Batches :
       /\ AddedFacts(log) + Len(valid_facts(prolog_facts)) <= MaxAdded
       /\ add_to_knowledge_base(prolog_facts)
  \/ consult

Spec == Init /\ [][Next]_vars

\* The system started where the knowledge-base file may not exist yet.
InitFile ==
  /\ log \in InitialLogs \cup {<<>>}
  /\ kb = load_facts(log)
  /\ result = NoResult
  /\ session = NoSession
  /\ hash_seed = 1

SpecFile == InitFile /\ [][Next]_vars

\* The generator on its own: constructions and writes on a file that is
\* absent, holds the rule base, or holds the rule base and one fact.
InitGenerator ==
  /\ log \in {<<>>, <<RuleBaseLine>>, <<RuleBaseLine, PersonLine("p1")>>}
  /\ kb = load_facts(log)
  /\ result = NoResult
  /\ session = NoSession
  /\ hash_seed = 1

NextGenerator ==
  \/ initialize_prolog_file
  \/ \E prolog_facts \in GeneratorBatches(MaxWritten - AddedFacts(log)) :
       add_to_knowledge_base(prolog_facts)

SpecGenerator == InitGenerator /\ [][NextGenerator]_vars

----------------------------------------------------------------------------
(* AdvancedCKDKnowledgeBaseGenerator (ckd_admin_2): the rule-based         *)
(* generator.  A fact text is the sequence of its tokens: the predicate,   *)
(* "(", the arguments separated by ",", ")" and ".".                       *)

predicate_schemas ==
  [predicate \in {"patient", "health_condition", "socio_economic_profile", "medical_details"} |->
     CASE predicate = "patient" ->
            <<"unique_id", "full_name", "age", "gender", "nationality">>
       [] predicate = "health_condition" -> <<"patient_id", "condition", "stage">>
       [] predicate = "socio_economic_profile" ->
            <<"patient_id", "monthly_income", "income_source", "residence_type",
              "dependent_count", "employment_status">>
       [] predicate = "medical_details" ->
            <<"patient_id", "primary_diagnosis", "treatment_plan", "medical_expenses">>]

\* Variant: the argument count is not compared with the schema.
validate_fact_any_count(predicate, arguments) == predicate \in DOMAIN predicate_schemas

validate_fact(predicate, arguments) ==
  IF predicate \notin DOMAIN predicate_schemas THEN FALSE
  ELSE IF Len(arguments) # Len(predicate_schemas[predicate]) THEN FALSE
  ELSE TRUE

\* dict.get(key, default) on a dictionary given as a function.
Get(dict, key, default) == IF key \in DOMAIN dict THEN dict[key] ELSE default

\* Descriptions: what each of the four patterns finds in the text (None when
\* the pattern does not match); is_text is false for an input that is not a
\* string.
DescribedNames == {"Nimal", "kamal"}

Descriptions ==
  [is_text : BOOLEAN,
   person : {None} \cup {Some(<<n, a, g>>) : n \in DescribedNames, a \in {"45", "70"},
                                              g \in {"male", "female"}},
   monthly_income : {None, Some("15000"), Some("40000")},
   ckd_stage : {None, Some("3"), Some("5")},
   residence_type : {None, Some("colombo")}]

\* The groups of the matching patterns, keyed as normalize_input keys them.
normalize_input(input_text) ==
  LET keys == (IF input_text.person # None THEN {"full_name", "age", "gender"} ELSE {})
                \cup (IF input_text.monthly_income # None THEN {"monthly_income"} ELSE {})
                \cup (IF input_text.ckd_stage # None THEN {"ckd_stage"} ELSE {})
                \cup (IF input_text.residence_type # None THEN {"residence_type"} ELSE {})
  IN  [key \in keys |->
         CASE key = "full_name" -> input_text.person[1][1]
           [] key = "age" -> input_text.person[1][2]
           [] key = "gender" -> input_text.person[1][3]
           [] key = "monthly_income" -> input_text.monthly_income[1]
           [] key = "ckd_stage" -> input_text.ckd_stage[1]
           [] key = "residence_type" -> input_text.residence_type[1]]

\* str.lower() on the names of the descriptions.
lower(text) == IF text = "Nimal" THEN "nimal" ELSE text

RECURSIVE join_arguments(_)
\* The arguments with a "," token between them.
join_arguments(arguments) ==
  IF arguments = <<>> THEN <<>>
  ELSE IF Len(arguments) = 1 THEN Head(arguments)
  ELSE Head(arguments) \o <<",">> \o join_arguments(Tail(arguments))

\* The f-string of one fact; every argument is itself a token sequence.
fact_text(predicate, arguments) ==
  <<predicate, "(">> \o join_arguments(arguments) \o <<")", ".">>

generate_prolog_facts(patient_info) ==
  LET unique_id == lower(Get(patient_info, "full_name", "unknown"))
  IN  << fact_text("patient",
                   << <<unique_id>>, <<"'", Get(patient_info, "full_name", "Unknown"), "'">>,
                      <<Get(patient_info, "age", "0")>>,
                      <<Get(patient_info, "gender", "unknown")>>, <<"sri_lankan">> >>),
         fact_text("health_condition",
                   << <<unique_id>>, <<"chronic_kidney_disease">>,
                      <<Get(patient_info, "ckd_stage", "0")>> >>),
         fact_text("socio_economic_profile",
                   << <<unique_id>>, <<Get(patient_info, "monthly_income", "0")>>, <<"unknown">>,
                      <<Get(patient_info, "residence_type", "unknown")>>, <<"0">>,
                      <<"unknown">> >>) >>

RECURSIVE split(_, _)
\* str.split(sep) on a token sequence: the pieces between the sep tokens.
split(tokens, sep) ==
  IF \A i \in DOMAIN tokens : tokens[i] # sep THEN <<tokens>>
  ELSE LET k == CHOOSE i \in DOMAIN tokens :
                  tokens[i] = sep /\ \A j \in 1..(i - 1) : tokens[j] # sep
       IN  <<SubSeq(tokens, 1, k - 1)>> \o split(SubSeq(tokens, k + 1, Len(tokens)), sep)

RECURSIVE strip(_, _)
\* str.strip(chars): leading and trailing tokens of the set are removed.
strip(tokens, chars) ==
  IF tokens = <<>> THEN <<>>
  ELSE IF Head(tokens) \in chars THEN strip(Tail(tokens), chars)
  ELSE IF tokens[Len(tokens)] \in chars THEN strip(SubSeq(tokens, 1, Len(tokens) - 1), chars)
  ELSE tokens

\* The filter of process_patient_description on one fact text.
passes_validation(fact) ==
  validate_fact(split(fact, "(")[1][1], split(strip(split(fact, "(")[2], {")", "."}), ","))

\* The list process_patient_description returns; an input that is not text
\* makes re.search raise, which the except branch turns into the empty list.
process_patient_description(description) ==
  IF ~description.is_text THEN <<>>
  ELSE SelectSeq(generate_prolog_facts(normalize_input(description)), passes_validation)

SchemaNames == DOMAIN predicate_schemas \cup {"person", "age"}

ArgumentLists == UNION {[1..n -> {"a"}] : n \in 0..7}

call_validate_fact(predicate, arguments) ==
  /\ result' = [op |-> "validate_fact", predicate |-> predicate, arguments |-> arguments,
                returned |-> validate_fact(predicate, arguments)]
  /\ UNCHANGED <<log, kb, session, hash_seed>>

call_process_patient_description(description) ==
  /\ result' = [op |-> "process_patient_description", description |-> description,
                returned |-> process_patient_description(description)]
  /\ UNCHANGED <<log, kb, session, hash_seed>>

InitAdmin ==
  /\ log = <<>>
  /\ kb = <<>>
  /\ result = NoResult
  /\ session = NoSession
  /\ hash_seed = 1

NextAdmin ==
  \/ \E predicate \in SchemaNames, arguments \in ArgumentLists :
       call_validate_fact(predicate, arguments)
  \/ \E description \in Descriptions : call_process_patient_description(description)

SpecAdmin == InitAdmin /\ [][NextAdmin]_vars

----------------------------------------------------------------------------
(* AdvancedPrologKnowledgeBaseGenerator: knowledge extraction.  The text   *)
(* returned by the language model is a sequence of lines and a line is a   *)
(* sequence of tokens [c, s]: c is the class of the token and s its text.  *)
(* Classes: "name" (a lower-case letter, then lower-case letters, digits   *)
(* and underscores), "word" (any other run of those), "quoted" (single     *)
(* quotes around a non-empty body), "capital" (a word with an upper-case   *)
(* letter), "space" (a run of white space), "text" (anything else) and     *)
(* the four punctuation marks of a fact.                                   *)

Token(c, s) == [c |-> c, s |-> s]

Punct(c) == Token(c, c)

MaxLines == 3

MaxExtracted == 2

\* Lines the language model may produce.
LineFacts ==
  { <<Token("name", "person"), Punct("("), Token("name", "p1"), Punct(")"), Punct(".")>>,
    <<Token("name", "age"), Punct("("), Token("name", "p1"), Punct(","), Token("space", " "),
      Token("word", "40"), Punct(")"), Punct(".")>>,
    <<Token("name", "location"), Punct("("), Token("name", "p1"), Punct(","),
      Token("quoted", "'North Central'"), Punct(")"), Punct(".")>>,
    <<Token("name", "hobby"), Punct("("), Token("name", "p1"), Punct(","), Token("space", " "),
      Token("name", "chess"), Punct(")"), Punct(".")>> }

LineNoise ==
  { <<Token("name", "person"), Punct("("), Token("capital", "Nimal"), Punct(")"), Punct(".")>>,
    <<Token("capital", "Age"), Punct("("), Token("name", "p1"), Punct(","), Token("word", "40"),
      Punct(")"), Punct(".")>>,
    <<Token("name", "age"), Punct("("), Token("name", "p1"), Punct(","), Token("word", "40"),
      Punct(")")>>,
    <<Token("name", "age"), Punct("("), Token("name", "p1"), Token("space", " "), Punct(","),
      Token("word", "40"), Punct(")"), Punct(".")>>,
    <<Token("text", "-"), Token("space", " "), Token("name", "person"), Punct("("),
      Token("name", "p1"), Punct(")"), Punct(".")>>,
    <<Token("name", "person"), Punct("("), Punct(")"), Punct(".")>>,
    <<Token("name", "person"), Punct("("), Token("name", "p1"), Punct(")"), Punct("."),
      Token("space", " ")>>,
    <<>> }

LlmLines == LineFacts \cup LineNoise

\* Texts handed to _parse_llm_output, and the shorter texts of an extraction.
LlmExtractions == UNION {[1..n -> LlmLines] : n \in 0..MaxLines}

ExtractionTexts == UNION {[1..n -> LineFacts] : n \in 0..MaxExtracted}

\* An argument: [a-z0-9_]+(?:_[a-z0-9_]+)* or '[^']+'.
is_argument(token) == token.c \in {"name", "word", "quoted"}

\* "\s*": a run of white space is passed over.
skip_space(tokens) ==
  IF tokens # <<>> /\ Head(tokens).c = "space" THEN Tail(tokens) ELSE tokens

RECURSIVE match_arguments(_)
\* ARG(?:,\s*ARG)*\)\.$ on the tokens after "(".
match_arguments(tokens) ==
  /\ tokens # <<>>
  /\ is_argument(Head(tokens))
  /\ \/ /\ Len(tokens) = 3
        /\ tokens[2].c = ")"
        /\ tokens[3].c = "."
     \/ /\ Len(tokens) > 3
        /\ tokens[2].c = ","
        /\ match_arguments(skip_space(SubSeq(tokens, 3, Len(tokens))))

\* fact_pattern on one line: ^[a-z][a-z0-9_]*\( ... \)\.$
fact_pattern(line) ==
  /\ Len(line) >= 2
  /\ line[1].c = "name"
  /\ line[2].c = "("
  /\ match_arguments(SubSeq(line, 3, Len(line)))

valid_predicates ==
  <<"person", "age", "gender", "profession", "marital_status", "education",
    "health_condition", "chronic_condition", "disability", "resides_in",
    "location", "children", "monthly_income", "income_level", "fixed_income",
    "debt_status", "communication_preference", "access_to_healthcare", "language_spoken",
    "family_structure", "dependent_children", "elderly_dependents", "commute_time">>

\* Variant: the predicate is not compared with the controlled vocabulary.
parse_llm_output_any_predicate(llm_extraction) ==
  SelectSeq(llm_extraction, fact_pattern)

\* _parse_llm_output: findall of fact_pattern, then the second match of the
\* same pattern and the vocabulary test on fact.split('(')[0].
parse_llm_output(llm_extraction) ==
  LET potential_facts == SelectSeq(llm_extraction, fact_pattern)
  IN  SelectSeq(potential_facts,
                LAMBDA fact : fact_pattern(fact) /\ fact[1].s \in Range(valid_predicates))

\* What a chain.invoke call may do: raise, or return a text.
ChainFailure == [failed |-> TRUE, text |-> <<>>]

ChainReturns(texts) == {[failed |-> FALSE, text |-> text] : text \in texts}

ChainOutcomes == ChainReturns(ExtractionTexts) \cup {ChainFailure}

\* refine_knowledge: the parsed output of the refinement chain, or the
\* original facts when the chain raises.
refine_knowledge(prolog_facts, refinement) ==
  IF refinement.failed THEN prolog_facts ELSE parse_llm_output(refinement.text)

HashSeeds == {1, 2}

RECURSIVE SetToSeq(_)
SetToSeq(set) ==
  IF set = {} THEN <<>>
  ELSE LET x == CHOOSE y \in set : TRUE IN <<x>> \o SetToSeq(set \ {x})

Reverse(seq) == [i \in DOMAIN seq |-> seq[Len(seq) + 1 - i]]

\* list(set(items)): the distinct items in the order the hash seed gives.
list_of_set(items, seed) ==
  IF seed = 1 THEN SetToSeq(Range(items)) ELSE Reverse(SetToSeq(Range(items)))

\* Variant: the refined facts are returned as they are.
extract_advanced_knowledge_as_is(extraction, refinement, seed) ==
  IF extraction.failed THEN <<>>
  ELSE refine_knowledge(parse_llm_output(extraction.text), refinement)

extract_advanced_knowledge(extraction, refinement, seed) ==
  IF extraction.failed THEN <<>>
  ELSE list_of_set(refine_knowledge(parse_llm_output(extraction.text), refinement), seed)

call_parse_llm_output(llm_extraction) ==
  /\ result' = [op |-> "_parse_llm_output", llm_extraction |-> llm_extraction,
                returned |-> parse_llm_output(llm_extraction)]
  /\ UNCHANGED <<log, kb, session, hash_seed>>

call_refine_knowledge(prolog_facts, refinement) ==
  /\ result' = [op |-> "refine_knowledge", prolog_facts |-> prolog_facts,
                refinement |-> refinement,
                returned |-> refine_knowledge(prolog_facts, refinement)]
  /\ UNCHANGED <<log, kb, session, hash_seed>>

call_extract_advanced_knowledge(extraction, refinement) ==
  /\ result' = [op |-> "extract_advanced_knowledge", extraction |-> extraction,
                refinement |-> refinement,
                returned |-> extract_advanced_knowledge(extraction, refinement, hash_seed)]
  /\ UNCHANGED <<log, kb, session, hash_seed>>

InitExtract ==
  /\ log = <<>>
  /\ kb = <<>>
  /\ result = NoResult
  /\ session = NoSession
  /\ hash_seed \in HashSeeds

\* The three methods keep no state between calls: one call per behaviour.
NextExtract ==
  \/ /\ result = NoResult
     /\ \E llm_extraction \in LlmExtractions : call_parse_llm_output(llm_extraction)
  \/ /\ result = NoResult
     /\ \E prolog_facts \in ExtractionTexts, refinement \in ChainOutcomes :
          call_refine_knowledge(prolog_facts, refinement)
  \/ /\ result = NoResult
     /\ \E extraction \in ChainOutcomes, refinement \in ChainOutcomes :
          call_extract_advanced_knowledge(extraction, refinement)

SpecExtract == InitExtract /\ [][NextExtract]_vars

----------------------------------------------------------------------------
(* CKDFinancialAidKnowledgeManager (formtter): the additional-information  *)
(* form.  A string value is the sequence of its tokens; besides the token  *)
(* classes of the extraction, "lower" is a run of lower-case letters.  A   *)
(* dictionary is a function from its keys; iteration follows the order of  *)
(* critical_attributes.                                                    *)

Str(tokens) == [k |-> "str", tokens |-> tokens, n |-> 0]

Num(n) == [k |-> "num", tokens |-> <<>>, n |-> n]

Word(s) == Str(<<Token("lower", s)>>)

HighSchool == Str(<<Token("lower", "high"), Token("space", " "), Token("lower", "school")>>)

critical_attributes ==
  << [attr |-> "location", type |-> "text", options |-> <<>>],
     [attr |-> "family_structure", type |-> "select",
      options |-> <<Word("nuclear"), Word("extended"), Word("single")>>],
     [attr |-> "education", type |-> "select",
      options |-> <<Word("primary"), Word("secondary"), HighSchool, Word("bachelor"),
                    Word("master"), Word("phd")>>],
     [attr |-> "profession", type |-> "text", options |-> <<>>],
     [attr |-> "monthly_income", type |-> "number", options |-> <<>>],
     [attr |-> "chronic_condition", type |-> "select",
      options |-> <<Word("yes"), Word("no")>>] >>

details_of(attr) ==
  critical_attributes[CHOOSE i \in DOMAIN critical_attributes : critical_attributes[i].attr = attr]

\* str.lower() of one token.
str_lower(token) ==
  CASE token.s = "Kandy" -> Token("lower", "kandy")
    [] token.s = "North" -> Token("lower", "north")
    [] token.s = "Central" -> Token("lower", "central")
    [] token.s = "K" -> Token("lower", "k")
    [] OTHER -> token

\* len(str(value)) of a string value.
RECURSIVE text_length(_)
text_length(tokens) ==
  IF tokens = <<>> THEN 0 ELSE Len(Head(tokens).s) + text_length(Tail(tokens))

\* re.match(r'^[A-Za-z\s]+$', str(value)) and len(str(value)) >= 2; the
\* digits of str(number) do not match.
letters_and_spaces(value) ==
  /\ value.k = "str"
  /\ value.tokens # <<>>
  /\ \A i \in DOMAIN value.tokens : value.tokens[i].c \in {"lower", "capital", "space"}
  /\ text_length(value.tokens) >= 2

\* str(value).lower() in the list of accepted words.
lower_in(value, words) ==
  /\ value.k = "str"
  /\ Str([i \in DOMAIN value.tokens |-> str_lower(value.tokens[i])]) \in Range(words)

\* details['validator'](value) of the attribute.
validator(attr, value) ==
  CASE attr = "location" -> letters_and_spaces(value)
    [] attr = "profession" -> letters_and_spaces(value)
    [] attr = "monthly_income" -> value.k = "num" /\ value.n >= 0
    [] attr = "chronic_condition" -> lower_in(value, <<Word("yes"), Word("no")>>)
    [] attr = "education" ->
         lower_in(value, <<Word("primary"), Word("secondary"), HighSchool, Word("bachelor"),
                           Word("master"), Word("phd")>>)
    [] attr = "family_structure" ->
         lower_in(value, <<Word("nuclear"), Word("extended"), Word("single")>>)

RECURSIVE strip_quotes(_)
\* str.strip of the two quote characters at both ends.
strip_quotes(tokens) ==
  IF tokens # <<>> /\ Head(tokens).c = "quote" THEN strip_quotes(Tail(tokens))
  ELSE IF tokens # <<>> /\ tokens[Len(tokens)].c = "quote"
    THEN strip_quotes(SubSeq(tokens, 1, Len(tokens) - 1))
  ELSE tokens

RECURSIVE joined(_)
\* The text of a token sequence.
joined(tokens) == IF tokens = <<>> THEN "" ELSE Head(tokens).s \o joined(Tail(tokens))

\* _convert_to_prolog_term: lower case, spaces to underscores, quotes
\* stripped; str(number) for a number.
convert_to_prolog_term(value) ==
  IF value.k = "num" THEN IntTerm(value.n)
  ELSE AtomTerm(joined(strip_quotes(
         [i \in DOMAIN value.tokens |->
            IF value.tokens[i].c = "space" THEN Token("lower", "_")
            ELSE str_lower(value.tokens[i])])))

\* next(... for fact in facts if fact.startswith('person('), None).
person_name_of(facts) ==
  LET persons == SelectSeq(facts, LAMBDA fact : fact.kind = "fact" /\ fact.pred = "person")
  IN  IF persons = <<>> THEN None ELSE Some(persons[1].subj)

\* "attr in fact": on the facts of the input sets an occurrence of the
\* attribute name is a whole component of the fact.
mentions(fact, attr) ==
  \/ fact.pred = attr
  \/ fact.subj = attr
  \/ fact.val.t = "atom" /\ fact.val.a = attr

\* What a widget of the form returns in this run: the value entered, or
\* the default computed from the value kept in patient_missing_info.
widget_value(details, info, entries) ==
  IF details.attr \in DOMAIN entries THEN entries[details.attr]
  ELSE IF details.type = "select"
    THEN IF details.attr \in DOMAIN info /\ info[details.attr] \in Range(details.options)
           THEN info[details.attr]
           ELSE details.options[1]
  ELSE IF details.type = "text"
    THEN IF details.attr \in DOMAIN info THEN info[details.attr] ELSE Str(<<>>)
  ELSE IF details.attr \in DOMAIN info THEN info[details.attr] ELSE Num(0)

\* missing_attrs: the critical attributes no fact mentions.
missing_attrs(initial_facts) ==
  SelectSeq(critical_attributes,
            LAMBDA details : ~\E i \in DOMAIN initial_facts :
                                mentions(initial_facts[i], details.attr))

attrs_of(details_list) == {details_list[i].attr : i \in DOMAIN details_list}

\* patient_missing_info after the loop over the missing attributes.
after_widgets(info, missing, entries) ==
  [attr \in DOMAIN info \cup missing |->
     IF attr \in missing THEN widget_value(details_of(attr), info, entries) ELSE info[attr]]

\* validated_info: zero and None are skipped, the rest is kept when its
\* validator accepts it.
validated_info(patient_missing_info) ==
  [attr \in {a \in DOMAIN patient_missing_info :
               /\ ~(patient_missing_info[a].k = "num" /\ patient_missing_info[a].n = 0)
               /\ validator(a, patient_missing_info[a])} |-> patient_missing_info[attr]]

\* The two returns after the form: validated_info if the form was submitted
\* and something was accepted, else patient_missing_info.
form_result(patient_missing_info, submitted) ==
  [returned |-> IF submitted /\ DOMAIN validated_info(patient_missing_info) # {}
                  THEN validated_info(patient_missing_info)
                  ELSE patient_missing_info,
   info |-> patient_missing_info]

\* gather_missing_information: the dictionary returned and the dictionary
\* left in st.session_state.patient_missing_info.  form.submitted is what
\* st.form_submit_button returns, form.entries what was typed or selected.
gather_missing_information(initial_facts, info, form) ==
  IF person_name_of(initial_facts) = None THEN [returned |-> <<>>, info |-> info]
  ELSE form_result(after_widgets(info, attrs_of(missing_attrs(initial_facts)), form.entries),
                   form.submitted)

\* The additional facts, in the order of the dictionary.
additional_facts(person_name, additional_info) ==
  LET kept == SelectSeq(critical_attributes,
                        LAMBDA details : /\ details.attr \in DOMAIN additional_info
                                         /\ additional_info[details.attr] # Str(<<>>))
  IN  [i \in DOMAIN kept |->
         FactLine(kept[i].attr, person_name,
                  convert_to_prolog_term(additional_info[kept[i].attr]))]

\* final_facts: list(set(initial_facts + additional_facts)) when the
\* dictionary is not empty, else the initial facts.
final_facts_of(initial_facts, additional_info, seed) ==
  IF DOMAIN additional_info # {}
    THEN list_of_set(initial_facts
                       \o additional_facts(person_name_of(initial_facts)[1], additional_info),
                     seed)
    ELSE initial_facts

\* add_to_knowledge_base(final_facts) and the return: raised when there is
\* something to write and open(path, 'a') raises.
write_final(final_facts, gathered, raised) ==
  [returned |-> IF raised THEN <<>> ELSE final_facts,
   info |-> gathered.info, gathered |-> TRUE,
   additional_info |-> gathered.returned, raised |-> raised,
   written |-> IF raised THEN <<>> ELSE valid_facts(final_facts)]

add_gathered(final_facts, gathered, writable) ==
  write_final(final_facts, gathered, valid_facts(final_facts) # <<>> /\ ~writable)

\* The branch of add_patient_information for facts that name a person.
add_for_person(initial_facts, info, form, writable, seed) ==
  add_gathered(final_facts_of(initial_facts,
                              gather_missing_information(initial_facts, info, form).returned,
                              seed),
               gather_missing_information(initial_facts, info, form), writable)

\* Variant: facts that name no person are written as well.
add_patient_information_always(initial_facts, info, form, writable, seed) ==
  IF person_name_of(initial_facts) = None
    THEN [returned |-> initial_facts, info |-> info, gathered |-> FALSE,
          additional_info |-> <<>>, raised |-> FALSE,
          written |-> valid_facts(initial_facts)]
    ELSE add_for_person(initial_facts, info, form, writable, seed)

\* add_patient_information(description, interactive=True) after the
\* extraction returned initial_facts: the list returned, the dictionary left
\* in session state, whether the form was shown and what it returned, and
\* the lines written to the file.  writable: open(path, 'a') does not raise;
\* when it raises (raised), the except branch returns [].
add_patient_information(initial_facts, info, form, writable, seed) ==
  IF person_name_of(initial_facts) = None
    THEN [returned |-> initial_facts, info |-> info, gathered |-> FALSE,
          additional_info |-> <<>>, raised |-> FALSE, written |-> <<>>]
    ELSE add_for_person(initial_facts, info, form, writable, seed)

\* Lists extract_advanced_knowledge may return for a description.
Extractions ==
  { <<>>,
    <<FactLine("age", "p1", IntTerm(40))>>,
    <<PersonLine("p1")>>,
    <<PersonLine("p2"), FactLine("monthly_income", "p2", IntTerm(40000))>>,
    <<PersonLine("p1"), MalformedFact>> }

\* An extraction that leaves only the text and number attributes missing.
SelectsKnown ==
  <<PersonLine("p1"), FactLine("family_structure", "p1", AtomTerm("nuclear")),
    FactLine("education", "p1", AtomTerm("primary")),
    FactLine("chronic_condition", "p1", AtomTerm("yes"))>>

Kandy == Str(<<Token("capital", "Kandy")>>)

\* What the form may return in one run: nothing submitted, an accepted
\* location and education, or a location that is too short.
Forms ==
  { [submitted |-> FALSE, entries |-> <<>>],
    [submitted |-> TRUE, entries |-> [location |-> Kandy, education |-> HighSchool]],
    [submitted |-> TRUE, entries |-> [location |-> Str(<<Token("capital", "K")>>)]] }

\* Dictionaries an earlier call may have left in patient_missing_info.
PriorInfos ==
  {<<>>} \cup {gather_missing_information(facts, <<>>, form).info :
                 facts \in {<<PersonLine("p1")>>, SelectsKnown}, form \in Forms}

gather_called(initial_facts, form, gathered) ==
  /\ session' = [session EXCEPT !.patient_missing_info = gathered.info]
  /\ result' = [op |-> "gather_missing_information", initial_facts |-> initial_facts,
                submitted |-> form.submitted, entries |-> form.entries,
                returned |-> gathered.returned]
  /\ UNCHANGED <<log, kb, hash_seed>>

call_gather_missing_information(initial_facts, form) ==
  gather_called(initial_facts, form,
                gather_missing_information(initial_facts, session.patient_missing_info, form))

add_called(initial_facts, form, added) ==
  /\ log' = IF added.written = <<>> THEN log
            ELSE log \o <<NewKnowledgeBlock>> \o added.written
  /\ session' = [session EXCEPT !.patient_missing_info = added.info]
  /\ result' = [op |-> "add_patient_information", initial_facts |-> initial_facts,
                submitted |-> form.submitted, entries |-> form.entries,
                gathered |-> added.gathered,
                additional_info |-> added.additional_info,
                raised |-> added.raised, returned |-> added.returned]
  /\ UNCHANGED <<kb, hash_seed>>

call_add_patient_information(initial_facts, form, writable) ==
  add_called(initial_facts, form,
             add_patient_information(initial_facts, session.patient_missing_info,
                                     form, writable, hash_seed))

InitManager ==
  /\ log = <<RuleBaseLine>>
  /\ kb = load_facts(log)
  /\ result = NoResult
  /\ \E info \in PriorInfos : session = [NoSession EXCEPT !.patient_missing_info = info]
  /\ hash_seed \in HashSeeds

\* One call of either method on the dictionary an earlier call left.
NextManager ==
  \/ /\ result = NoResult
     /\ \E initial_facts \in Extractions \cup {SelectsKnown}, form \in Forms :
          call_gather_missing_information(initial_facts, form)
  \/ /\ result = NoResult
     /\ \E initial_facts \in Extractions \cup {SelectsKnown}, form \in Forms,
           writable \in BOOLEAN :
          call_add_patient_information(initial_facts, form, writable)

SpecManager == InitManager /\ [][NextManager]_vars

----------------------------------------------------------------------------
(* CKDFinancialAidExpertSystem (ui3): one action per button.  A press      *)
(* runs the whole script: the constructor creates the file if it is        *)
(* absent and consults it, then the handler of the pressed button runs.    *)

\* Most descriptions processed in one session (blocks written to the file).
MaxProcessed == 2

\* The form in the run of the Process handler.  st.button is true only in
\* the run its own press starts, so the handler runs in a run that no press
\* of "Save Additional Information" started: the submit button returns
\* False and every widget returns its default.
NotSubmitted == [submitted |-> FALSE, entries |-> <<>>]

\* The file after _initialize_prolog_file of a constructor.
initialized(lines) == IF lines = <<>> THEN HeaderLines ELSE lines

Blocks(lines) == Cardinality({i \in DOMAIN lines : lines[i] = NewKnowledgeBlock})

\* The session fields set by the Process handler when a name was found.
processed_session(state, added) ==
  IF person_name_of(added.returned) = None
    THEN [state EXCEPT !.patient_missing_info = added.info]
    ELSE [state EXCEPT !.patient_name = person_name_of(added.returned),
                       !.patient_facts = Some(added.returned),
                       !.patient_missing_info = added.info]

\* The Process handler after add_patient_information returned.
processed(initial_facts, added) ==
  /\ log' = IF added.written = <<>> THEN initialized(log)
            ELSE initialized(log) \o <<NewKnowledgeBlock>> \o added.written
  /\ kb' = load_facts(initialized(log))
  /\ session' = processed_session(session, added)
  /\ result' = [op |-> "process_patient_information", initial_facts |-> initial_facts,
                submitted |-> FALSE, gathered |-> added.gathered,
                additional_info |-> added.additional_info,
                raised |-> added.raised, returned |-> added.returned]
  /\ UNCHANGED hash_seed

\* "Process Patient Information" with a non-blank description.
process_patient_information(initial_facts, writable) ==
  processed(initial_facts,
            add_patient_information(initial_facts, session.patient_missing_info,
                                    NotSubmitted, writable, hash_seed))

step2_offered(state) == state.patient_name # None /\ state.patient_name # Some("")

step3_offered(state) == state.application_status = Some(TRUE)

\* "Check Eligibility" (Step 2); an exception of the analysis is caught and
\* leaves the session as it was.
check_eligibility ==
  /\ step2_offered(session)
  /\ log' = initialized(log)
  /\ kb' = load_facts(initialized(log))
  /\ \E llm \in LlmOutcomes :
       result' = eligibility_result(load_facts(initialized(log)), session.patient_name[1], llm)
  /\ session' = IF result'.status = "raised" THEN session
                ELSE [session EXCEPT !.eligibility_result = Some(result'),
                                     !.application_status = Some(result'.is_eligible)]
  /\ UNCHANGED hash_seed

\* "Generate Financial Aid Application" (Step 3).
generate_financial_aid_application ==
  /\ step3_offered(session)
  /\ log' = initialized(log)
  /\ kb' = load_facts(initialized(log))
  /\ \E llm \in LlmOutcomes :
       result' = application_result(load_facts(initialized(log)), session.patient_name[1], llm)
  /\ UNCHANGED <<session, hash_seed>>

\* "View Knowledge Base": the file is read and shown.
view_knowledge_base ==
  /\ log' = initialized(log)
  /\ kb' = load_facts(initialized(log))
  /\ result' = [NoResult EXCEPT !.op = "view_knowledge_base", !.status = "returned"]
  /\ UNCHANGED <<session, hash_seed>>

\* Variant: the application status survives the reset.
reset_expert_system_keep_status ==
  /\ log' = initialized(log)
  /\ kb' = load_facts(initialized(log))
  /\ session' = [session EXCEPT !.patient_name = None, !.patient_facts = None,
                                !.eligibility_result = None]
  /\ result' = [NoResult EXCEPT !.op = "reset_expert_system", !.status = "returned"]
  /\ UNCHANGED hash_seed

\* "Reset Expert System": the four keys are deleted and the rerun's
\* constructor sets them to None again.
reset_expert_system ==
  /\ log' = initialized(log)
  /\ kb' = load_facts(initialized(log))
  /\ session' = [session EXCEPT !.patient_name = None, !.patient_facts = None,
                                !.application_status = None, !.eligibility_result = None]
  /\ result' = [NoResult EXCEPT !.op = "reset_expert_system", !.status = "returned"]
  /\ UNCHANGED hash_seed

\* The page after its first run: the file exists, nothing is in the session.
InitUI ==
  /\ log \in {<<RuleBaseLine>>, HeaderLines}
  /\ kb = load_facts(log)
  /\ result = NoResult
  /\ session = NoSession
  /\ hash_seed = 1

NextUI ==
  \/ \E initial_facts \in Extractions, writable \in BOOLEAN :
       /\ Blocks(log) < MaxProcessed
       /\ process_patient_information(initial_facts, writable)
  \/ check_eligibility
  \/ generate_financial_aid_application
  \/ view_knowledge_base
  \/ reset_expert_system

SpecUI == InitUI /\ [][NextUI]_vars

----------------------------------------------------------------------------
(* Vocabulary of the properties *)

\* The fact store holds a person fact for name.
HasPersonFact(name) == \E i \in DOMAIN kb : kb[i].pred = "person" /\ kb[i].subj = name

\* The fact store holds a fact of predicate pred about name.
HasFact(pred, name) == \E i \in DOMAIN kb : kb[i].pred = pred /\ kb[i].subj = name

\* result is the dictionary returned by analyze_eligibility for a known person.
EvaluatedKnownPerson ==
  /\ result.op = "analyze_eligibility"
  /\ result.status = "returned"
  /\ HasPersonFact(result.name)

ProgramNames == Range(all_programs)

Position(program) == CHOOSE i \in DOMAIN all_programs : all_programs[i] = program

\* seq lists programs of all_programs in declaration order, none twice.
InDeclarationOrder(seq) ==
  /\ Range(seq) \subseteq ProgramNames
  /\ \A i, j \in DOMAIN seq : i < j => Position(seq[i]) < Position(seq[j])

\* The predicate read by the check that produces the reason text.
PredicateOf(text) ==
  CASE text \in {"Age is 40 or below", "Age is 60 or below"} -> "age"
    [] text = "CKD stage does not meet criteria" -> "health_condition"
    [] text \in {"Monthly income exceeds LKR 25,000", "Monthly income exceeds LKR 20,000",
                 "Monthly income exceeds LKR 18,000", "Monthly income exceeds LKR 15,000"}
         -> "monthly_income"
    [] text \in {"Not a single parent", "Not single"} -> "marital_status"
    [] text = "No dependent children" -> "dependent_children"
    [] text = "No children" -> "children"
    [] text = "Not in a rural area" -> "location"
    [] text = "Education level does not meet criteria" -> "education"
    [] text = "No chronic condition" -> "chronic_condition"
    [] text = "Already has healthcare access" -> "access_to_healthcare"
    [] text = "Family structure does not meet criteria" -> "family_structure"
    [] text = "Not female" -> "gender"
    [] text = "Not a part-time tea plucker" -> "profession"
    [] OTHER -> "unknown"

\* Some disqualifying check of program matches the facts about name.
SomeCheckMatches(program, name) == program_reasons(kb, name, program) # <<>>

----------------------------------------------------------------------------
(* Properties *)

\* C1: for a person id with no person fact in the fact store, analyze_eligibility
\* returns is_eligible = false, empty program lists and exactly the one
\* "person not found" reason; no program check is evaluated.
C1_PersonNotFound ==
  (result.op = "analyze_eligibility" /\ ~HasPersonFact(result.name))
    => /\ result.status = "returned"
       /\ result.is_eligible = FALSE
       /\ result.eligible_programs = <<>>
       /\ result.non_eligible_programs = <<>>
       /\ result.denial_reasons = <<PersonNotFound>>

\* An unknown person about whom the store nevertheless holds a fact.
C1_Witness ==
  /\ result.op = "analyze_eligibility"
  /\ ~HasPersonFact(result.name)
  /\ \E i \in DOMAIN kb : kb[i].subj = result.name

C3_AbsentFactNoReason ==
  EvaluatedKnownPerson =>
    \A r \in Range(result.denial_reasons) : HasFact(PredicateOf(r.text), result.name)

\* A person without an age fact for whom both age-checking programs were
\* found non-eligible, so that their age checks were run.
C3_Witness ==
  /\ EvaluatedKnownPerson
  /\ ~HasFact("age", result.name)
  /\ {"suwa_ckd_aid", "arogya_elderly_care"} \subseteq Range(result.non_eligible_programs)

C6_OverallEligible ==
  (result.op = "analyze_eligibility" /\ result.status = "returned")
    => (result.is_eligible <=> result.eligible_programs # <<>>)

\* Eligible overall although some program is non-eligible.
C6_Witness ==
  /\ EvaluatedKnownPerson
  /\ result.is_eligible
  /\ result.non_eligible_programs # <<>>

\* C7: eligible_programs and non_eligible_programs are each a subsequence of
\* the declaration order of the nine programs.
C7_DeclarationOrder ==
  (result.op = "analyze_eligibility" /\ result.status = "returned")
    => /\ InDeclarationOrder(result.eligible_programs)
       /\ InDeclarationOrder(result.non_eligible_programs)

C7_Witness ==
  /\ EvaluatedKnownPerson
  /\ Len(result.eligible_programs) >= 2
  /\ Len(result.non_eligible_programs) >= 2

C10_Original ==
  (result.op = "analyze_application_denial" /\ HasPersonFact(result.name))
    => \A i \in DOMAIN kb :
         (kb[i].pred = "monthly_income" /\ kb[i].subj = result.name)
           => LET income_reason ==
                    Reason("", "Monthly income exceeds LKR 30,000 threshold (Current income: {} LKR)",
                           kb[i].val)
              IN  IF kb[i].val.n >= 30000
                    THEN /\ result.status = "returned"
                         /\ income_reason \in Range(result.denial_reasons)
                    ELSE income_reason \notin Range(result.denial_reasons)

----------------------------------------------------------------------------
(* Claims C11 to C20 *)

AnalyzeOps == {"analyze_eligibility", "analyze_application_denial"}

\* result is the 'person not found' dictionary.
NotFoundResult ==
  /\ result.status = "returned"
  /\ result.denial_reasons = <<PersonNotFound>>

\* The fact store holds a fact of some predicate about name.
HasAnyFact(name) == \E i \in DOMAIN kb : kb[i].kind = "fact" /\ kb[i].subj = name

\* C11 as stated: the 'person not found' result is returned exactly when the
\* person id has no fact of any predicate in the fact store.
C11_Original ==
  result.op \in AnalyzeOps => (NotFoundResult <=> ~HasAnyFact(result.name))

\* C11, amended: analyze_eligibility and analyze_application_denial return the
\* 'person not found' result exactly when the fact store holds no person fact
\* for the id, whatever attribute facts it holds about the id.
C11_PersonFactDecides ==
  result.op \in AnalyzeOps => (NotFoundResult <=> ~HasPersonFact(result.name))

\* An id with a monthly_income fact and no person fact, reported as not found.
C11_Witness ==
  /\ result.op = "analyze_application_denial"
  /\ NotFoundResult
  /\ HasFact("monthly_income", result.name)
  /\ ~HasPersonFact(result.name)

\* C12 as stated: analyze_application_denial and analyze_eligibility always
\* return a dictionary with is_eligible and denial_reasons, and never raise.
C12_Original ==
  result.op \in AnalyzeOps
    => /\ result.status = "returned"
       /\ {"is_eligible", "denial_reasons"} \subseteq result.keys

RECURSIVE FirstValues(_, _)
\* The store with only the first clause of every (predicate, subject) pair.
FirstValues(kbx, seen) ==
  IF kbx = <<>> THEN <<>>
  ELSE IF <<Head(kbx).pred, Head(kbx).subj>> \in seen
         THEN FirstValues(Tail(kbx), seen)
         ELSE <<Head(kbx)>> \o FirstValues(Tail(kbx), seen \cup {<<Head(kbx).pred, Head(kbx).subj>>})

Check(program, text, pred, cmp, n, atoms) ==
  [program |-> program, text |-> text, pred |-> pred, cmp |-> cmp, n |-> n, atoms |-> atoms]

Checks ==
  { Check("suwa_ckd_aid", "Age is 40 or below", "age", "le", 40, {}),
    Check("suwa_ckd_aid", "CKD stage does not meet criteria", "health_condition", "differs", 0,
          {"stage_4_ckd", "stage_5_ckd"}),
    Check("suwa_ckd_aid", "Monthly income exceeds LKR 25,000", "monthly_income", "ge", 25000, {}),
    Check("diriya_support", "Not a single parent", "marital_status", "differs", 0, {"single"}),
    Check("diriya_support", "No dependent children", "dependent_children", "zero", 0, {}),
    Check("diriya_support", "Monthly income exceeds LKR 20,000", "monthly_income", "ge", 20000, {}),
    Check("thurunu_piyasa", "Not in a rural area", "location", "differs", 0, {"anuradhapura"}),
    Check("thurunu_piyasa", "Education level does not meet criteria", "education", "differs", 0,
          {"primary"}),
    Check("thurunu_piyasa", "Monthly income exceeds LKR 15,000", "monthly_income", "ge", 15000, {}),
    Check("sahana_healthcare", "No chronic condition", "chronic_condition", "differs", 0, {"yes"}),
    Check("sahana_healthcare", "Already has healthcare access", "access_to_healthcare", "is", 0,
          {"yes"}),
    Check("sahana_healthcare", "Monthly income exceeds LKR 20,000", "monthly_income", "ge", 20000, {}),
    Check("divisaviya_income_support", "Monthly income exceeds LKR 15,000", "monthly_income", "ge",
          15000, {}),
    Check("divisaviya_income_support", "Family structure does not meet criteria",
          "family_structure", "differs", 0, {"nuclear"}),
    Check("nirmala_empowerment", "Not female", "gender", "differs", 0, {"female"}),
    Check("nirmala_empowerment", "Not single", "marital_status", "differs", 0, {"single"}),
    Check("nirmala_empowerment", "Monthly income exceeds LKR 18,000", "monthly_income", "ge",
          18000, {}),
    Check("daruwan_suraksha", "No children", "children", "zero", 0, {}),
    Check("daruwan_suraksha", "No dependent children", "dependent_children", "zero", 0, {}),
    Check("daruwan_suraksha", "Monthly income exceeds LKR 20,000", "monthly_income", "ge", 20000, {}),
    Check("govi_jana_support", "Not a part-time tea plucker", "profession", "differs", 0,
          {"part_time_tea_plucker"}),
    Check("govi_jana_support", "Not in a rural area", "location", "differs", 0, {"anuradhapura"}),
    Check("govi_jana_support", "Monthly income exceeds LKR 18,000", "monthly_income", "ge", 18000, {}),
    Check("arogya_elderly_care", "Age is 60 or below", "age", "le", 60, {}),
    Check("arogya_elderly_care", "Monthly income exceeds LKR 20,000", "monthly_income", "ge",
          20000, {}) }

\* The value v satisfies the comparison of check c.
CheckMatches(c, v) ==
  CASE c.cmp = "le"      -> v.t = "int" /\ v.n <= c.n
    [] c.cmp = "ge"      -> v.t = "int" /\ v.n >= c.n
    [] c.cmp = "zero"    -> v.t = "int" /\ v.n = 0
    [] c.cmp = "differs" -> ~(v.t = "atom" /\ v.a \in c.atoms)
    [] c.cmp = "is"      -> v.t = "atom" /\ v.a \in c.atoms

\* Some value recorded for the person, first or later, satisfies check c.
SomeValueMatches(c, name) ==
  \E i \in DOMAIN kb : kb[i].pred = c.pred /\ kb[i].subj = name /\ CheckMatches(c, kb[i].val)

RECURSIVE PairValues(_, _, _)
\* The values the lines record for the pair (pred, subj), in line order.
PairValues(lines, pred, subj) ==
  IF lines = <<>> THEN <<>>
  ELSE (IF Head(lines).kind = "fact" /\ Head(lines).pred = pred /\ Head(lines).subj = subj
          THEN <<Head(lines).val>>
          ELSE <<>>) \o PairValues(Tail(lines), pred, subj)

\* The (predicate, subject) pairs of the fact lines.
PairsOf(lines) == {<<f.pred, f.subj>> : f \in {g \in Range(lines) : g.kind = "fact"}}

\* The facts of a batch whose argument is unquoted, in batch order.
WellFormedOf(batch) == SelectSeq(batch, LAMBDA f : f.kind = "fact" /\ ~f.val.q)

\* C14 as stated: the knowledge base holds at most one value per
\* (person, predicate) pair.
C14_Original ==
  \A i, j \in DOMAIN log :
    (log[i].kind = "fact" /\ log[j].kind = "fact"
       /\ log[i].pred = log[j].pred /\ log[i].subj = log[j].subj)
      => log[i].val = log[j].val

\* C14, amended: recording a value for a pair that already has one keeps the
\* old value.  After add_to_knowledge_base the values the file holds for each
\* pair are the values it held before, followed by the values the call
\* recorded for the pair; no other operation changes them.
C14_ValuesAccumulate ==
  [][\A pair \in PairsOf(log) \cup PairsOf(log') :
       PairValues(log', pair[1], pair[2])
         = PairValues(log, pair[1], pair[2])
             \o (IF result'.op = "add_to_knowledge_base"
                   THEN PairValues(WellFormedOf(result'.prolog_facts), pair[1], pair[2])
                   ELSE <<>>)]_vars

\* add_to_knowledge_base has recorded a second, different value for a pair.
C14_Witness ==
  /\ result.op = "add_to_knowledge_base"
  /\ \E f \in Range(result.prolog_facts) :
       /\ Len(PairValues(log, f.pred, f.subj)) = 2
       /\ PairValues(log, f.pred, f.subj)[1] # PairValues(log, f.pred, f.subj)[2]
       /\ PairValues(log, f.pred, f.subj)[2] = f.val

\* seq is an initial segment of longer.
IsPrefix(seq, longer) ==
  /\ Len(seq) <= Len(longer)
  /\ SubSeq(longer, 1, Len(seq)) = seq

\* C15: the knowledge-base file is append-only: across generator
\* constructions, add_to_knowledge_base and evaluations, the file before a step
\* is a prefix of the file after it; an existing file is never truncated or
\* re-initialised.
C15_AppendOnly == [][IsPrefix(log, log')]_vars

\* A generator was constructed on a file that already held written facts,
\* and the file still holds them.
C15_Witness ==
  /\ result.op = "_initialize_prolog_file"
  /\ \E i, j \in DOMAIN log : i < j /\ log[i] = NewKnowledgeBlock /\ log[j].kind = "fact"

\* The fact lines, in file order.
FactLines(lines) == SelectSeq(lines, LAMBDA l : l.kind = "fact")

\* C16: add_to_knowledge_base skips a malformed fact and goes on: exactly the
\* well-formed facts of the batch are appended, in batch order, wherever the
\* malformed facts stand in the batch; with no well-formed fact the file is
\* left as it was.
C16_ValidFactsAppended ==
  [][result'.op = "add_to_knowledge_base"
       => /\ IsPrefix(log, log')
          /\ FactLines(log') = FactLines(log) \o WellFormedOf(result'.prolog_facts)
          /\ WellFormedOf(result'.prolog_facts) = <<>> => log' = log]_vars

\* A batch of a well-formed fact, the malformed fact and another well-formed
\* fact: the file ends with the two well-formed facts in batch order.
C16_Witness ==
  /\ result.op = "add_to_knowledge_base"
  /\ Len(result.prolog_facts) = 3
  /\ result.prolog_facts[2] = MalformedFact
  /\ result.prolog_facts[1] # result.prolog_facts[3]
  /\ Len(log) >= 2
  /\ log[Len(log) - 1] = result.prolog_facts[1]
  /\ log[Len(log)] = result.prolog_facts[3]

\* The verdict of the nine program checks on a store, for every person.
Evaluation(kbx) == [name \in Persons |-> for_programs(kbx, name, 1, empty_lists)]

EvaluationOps == {"analyze_eligibility", "analyze_application_denial", "generate_application"}

\* C18: evaluation is read-only.  analyze_eligibility, analyze_application_denial
\* and generate_application leave the fact store and the file as they were,
\* and the facts of the file change in add_to_knowledge_base steps only.
C18_EvaluationReadOnly ==
  [][/\ result'.op \in EvaluationOps => (log' = log /\ kb' = kb)
     /\ FactLines(log') # FactLines(log) => result'.op = "add_to_knowledge_base"]_vars

\* An application was generated from a store that is behind the file: the
\* generator did not read the file again.
C18_Witness ==
  /\ result.op = "generate_application"
  /\ result.status = "returned"
  /\ result.application_data # <<>>
  /\ FactLines(kb) # FactLines(log)

\* C19 as stated: for a known person analyze_application_denial returns a
\* dictionary in which every missing required predicate has its 'Missing
\* required data' reason and is_eligible is true iff denial_reasons is empty.
C19_Original ==
  (result.op = "analyze_application_denial" /\ HasPersonFact(result.name))
    => /\ result.status = "returned"
       /\ \A pred \in {"monthly_income", "health_condition", "access_to_healthcare"} :
            ~HasFact(pred, result.name)
              => Reason("", "Missing required data", AtomTerm(pred)) \in Range(result.denial_reasons)
       /\ result.is_eligible <=> (result.denial_reasons = <<>>)

\* The income threshold of each program and the text of its income reason.
IncomeLimits ==
  { <<"suwa_ckd_aid", 25000, "Monthly income exceeds LKR 25,000">>,
    <<"diriya_support", 20000, "Monthly income exceeds LKR 20,000">>,
    <<"thurunu_piyasa", 15000, "Monthly income exceeds LKR 15,000">>,
    <<"sahana_healthcare", 20000, "Monthly income exceeds LKR 20,000">>,
    <<"divisaviya_income_support", 15000, "Monthly income exceeds LKR 15,000">>,
    <<"nirmala_empowerment", 18000, "Monthly income exceeds LKR 18,000">>,
    <<"daruwan_suraksha", 20000, "Monthly income exceeds LKR 20,000">>,
    <<"govi_jana_support", 18000, "Monthly income exceeds LKR 18,000">>,
    <<"arogya_elderly_care", 20000, "Monthly income exceeds LKR 20,000">> }

\* The age limit of the two programs with an age check, and the reason text.
AgeLimits ==
  { <<"suwa_ckd_aid", 40, "Age is 40 or below">>,
    <<"arogya_elderly_care", 60, "Age is 60 or below">> }

\* C20: for a known person and every non-eligible program, the program's
\* income reason is present iff a recorded monthly_income is at or above the
\* program's threshold, and the age reasons of suwa_ckd_aid and
\* arogya_elderly_care are present iff a recorded age is at most 40, at most 60.
C20_Thresholds ==
  EvaluatedKnownPerson =>
    /\ \A l \in IncomeLimits :
         l[1] \in Range(result.non_eligible_programs)
           => (Reason(l[1], l[3], NoTerm) \in Range(result.denial_reasons)
                 <=> \E i \in DOMAIN kb : /\ kb[i].pred = "monthly_income"
                                          /\ kb[i].subj = result.name
                                          /\ kb[i].val.n >= l[2])
    /\ \A l \in AgeLimits :
         l[1] \in Range(result.non_eligible_programs)
           => (Reason(l[1], l[3], NoTerm) \in Range(result.denial_reasons)
                 <=> \E i \in DOMAIN kb : /\ kb[i].pred = "age"
                                          /\ kb[i].subj = result.name
                                          /\ kb[i].val.n <= l[2])

\* Age exactly 40 and income exactly 20000: the age reason of suwa_ckd_aid and
\* the income reason of diriya_support are present, the income reason of
\* suwa_ckd_aid (threshold 25000) is not.
C20_Witness ==
  /\ EvaluatedKnownPerson
  /\ \E i \in DOMAIN kb : kb[i].pred = "age" /\ kb[i].subj = result.name /\ kb[i].val.n = 40
  /\ \E i \in DOMAIN kb :
       kb[i].pred = "monthly_income" /\ kb[i].subj = result.name /\ kb[i].val.n = 20000
  /\ Reason("suwa_ckd_aid", "Age is 40 or below", NoTerm) \in Range(result.denial_reasons)
  /\ Reason("diriya_support", "Monthly income exceeds LKR 20,000", NoTerm)
       \in Range(result.denial_reasons)
  /\ Reason("suwa_ckd_aid", "Monthly income exceeds LKR 25,000", NoTerm)
       \notin Range(result.denial_reasons)

----------------------------------------------------------------------------
(* Claims C21 to C29 *)

\* seq holds no element twice.
NoDuplicates(seq) == \A i, j \in DOMAIN seq : seq[i] = seq[j] => i = j

\* C25: for a known person the two program lists of an analyze_eligibility
\* result are disjoint, hold no program twice, and together hold each of the
\* nine programs exactly once.
C25_Partition ==
  EvaluatedKnownPerson =>
    /\ Range(result.eligible_programs) \cap Range(result.non_eligible_programs) = {}
    /\ NoDuplicates(result.eligible_programs)
    /\ NoDuplicates(result.non_eligible_programs)
    /\ Range(result.eligible_programs) \cup Range(result.non_eligible_programs)
         = {"suwa_ckd_aid", "diriya_support", "thurunu_piyasa", "sahana_healthcare",
            "divisaviya_income_support", "nirmala_empowerment", "daruwan_suraksha",
            "govi_jana_support", "arogya_elderly_care"}
    /\ Len(result.eligible_programs) + Len(result.non_eligible_programs) = 9

\* A known person with programs in both lists.
C25_Witness ==
  /\ EvaluatedKnownPerson
  /\ Len(result.eligible_programs) >= 2
  /\ Len(result.non_eligible_programs) >= 2

\* The value found by a pattern, or the default.
Found(opt, default) == IF opt = None THEN default ELSE opt[1]

\* C29: validate_fact is false for a predicate outside the four schemas and
\* for an argument count other than the schema's length, true otherwise;
\* process_patient_description returns, for every description, the patient,
\* health_condition and socio_economic_profile facts with the defaults
\* unknown and 0 for what the patterns did not find, each of which passes
\* validate_fact, and the empty list when processing raises.
C29_ValidatedFacts ==
  /\ result.op = "validate_fact"
       => (result.returned
             <=> \/ result.predicate = "patient" /\ Len(result.arguments) = 5
                 \/ result.predicate = "health_condition" /\ Len(result.arguments) = 3
                 \/ result.predicate = "socio_economic_profile" /\ Len(result.arguments) = 6
                 \/ result.predicate = "medical_details" /\ Len(result.arguments) = 4)
  /\ (result.op = "process_patient_description" /\ ~result.description.is_text)
       => result.returned = <<>>
  /\ (result.op = "process_patient_description" /\ result.description.is_text)
       => LET d    == result.description
              name == IF d.person = None THEN "Unknown" ELSE d.person[1][1]
              id   == IF d.person = None THEN "unknown"
                      ELSE IF d.person[1][1] = "Nimal" THEN "nimal" ELSE d.person[1][1]
              age  == IF d.person = None THEN "0" ELSE d.person[1][2]
              sex  == IF d.person = None THEN "unknown" ELSE d.person[1][3]
          IN  result.returned =
                << <<"patient", "(", id, ",", "'", name, "'", ",", age, ",", sex, ",",
                     "sri_lankan", ")", ".">>,
                   <<"health_condition", "(", id, ",", "chronic_kidney_disease", ",",
                     Found(d.ckd_stage, "0"), ")", ".">>,
                   <<"socio_economic_profile", "(", id, ",", Found(d.monthly_income, "0"), ",",
                     "unknown", ",", Found(d.residence_type, "unknown"), ",", "0", ",",
                     "unknown", ")", ".">> >>

\* A description in which no pattern matched: the three facts are returned
\* with their defaults.
C29_Witness ==
  /\ result.op = "process_patient_description"
  /\ result.description.is_text
  /\ result.description.person = None
  /\ result.description.monthly_income = None
  /\ Len(result.returned) = 3

\* C26: knowledge extraction degrades instead of failing.  When the
\* refinement chain fails refine_knowledge returns the facts it was given;
\* when the extraction chain fails extract_advanced_knowledge returns the
\* empty list; and the list extract_advanced_knowledge returns never holds
\* the same fact twice.
C26_Degrades ==
  /\ (result.op = "refine_knowledge" /\ result.refinement.failed)
       => result.returned = result.prolog_facts
  /\ (result.op = "extract_advanced_knowledge" /\ result.extraction.failed)
       => result.returned = <<>>
  /\ result.op = "extract_advanced_knowledge" => NoDuplicates(result.returned)

\* The model's text held the same fact line twice, refinement failed, and
\* the fact is returned once.
C26_Witness ==
  /\ result.op = "extract_advanced_knowledge"
  /\ result.refinement.failed
  /\ ~result.extraction.failed
  /\ Len(result.extraction.text) = 2
  /\ result.extraction.text[1] = result.extraction.text[2]
  /\ result.returned = <<result.extraction.text[1]>>

\* The tokens of a line with the white space after commas left out.
Unspaced(line) ==
  SelectSeq([i \in DOMAIN line |-> [tok |-> line[i],
                                    drop |-> line[i].c = "space" /\ i > 1 /\ line[i - 1].c = ","]],
            LAMBDA e : ~e.drop)

\* The fact grammar: a lower-case predicate, "(", one or more arguments that
\* are lower-case/digit/underscore words or single-quoted, separated by
\* commas, then ")" and the final period.
GrammarLine(line) ==
  LET ts == Unspaced(line)
      n  == Len(ts)
  IN  /\ n >= 5
      /\ n % 2 = 1
      /\ ts[1].tok.c = "name"
      /\ ts[2].tok.c = "("
      /\ ts[n - 1].tok.c = ")"
      /\ ts[n].tok.c = "."
      /\ \A i \in 3..(n - 2) :
           IF i % 2 = 1 THEN ts[i].tok.c \in {"name", "word", "quoted"} ELSE ts[i].tok.c = ","

Vocabulary ==
  {"person", "age", "gender", "profession", "marital_status", "education", "health_condition",
   "chronic_condition", "disability", "resides_in", "location", "children", "monthly_income",
   "income_level", "fixed_income", "debt_status", "communication_preference",
   "access_to_healthcare", "language_spoken", "family_structure", "dependent_children",
   "elderly_dependents", "commute_time"}

Step2Offered == session.patient_name \notin {<<>>, <<"">>}

Step3Offered == session.application_status = <<TRUE>>

ProcessStep == result'.op = "process_patient_information"

NamesPerson(facts) == \E i \in DOMAIN facts : facts[i].pred = "person"

\* C21 (as stated): whenever application generation (Step 3) is offered, the
\* eligibility result in session state was computed for the patient in
\* session state and reports is_eligible = true.
C21_Original ==
  Step3Offered =>
    /\ session.eligibility_result # <<>>
    /\ session.eligibility_result[1].is_eligible
    /\ session.patient_name = <<session.eligibility_result[1].name>>

\* C22: a reset sets patient_name, patient_facts, application_status and
\* eligibility_result to None and leaves the file as it is; Step 2 becomes
\* offered only by processing a description whose facts name a person, and
\* Step 3 only by an eligibility check of Step 2.
C22_Reset ==
  [][/\ result'.op = "reset_expert_system" =>
          /\ session'.patient_name = <<>>
          /\ session'.patient_facts = <<>>
          /\ session'.application_status = <<>>
          /\ session'.eligibility_result = <<>>
          /\ ~Step2Offered'
          /\ ~Step3Offered'
          /\ log' = log
     /\ (~Step2Offered /\ Step2Offered') => (ProcessStep /\ NamesPerson(result'.returned))
     /\ (~Step3Offered /\ Step3Offered') => (result'.op = "analyze_eligibility" /\ Step2Offered)
    ]_vars

\* A reset pressed when Step 3 had been offered for a stored patient.
C22_Witness ==
  /\ result.op = "reset_expert_system"
  /\ ~Step2Offered
  /\ ~Step3Offered
  /\ \E i \in DOMAIN log : log[i] = PersonLine("p1")

\* C23 (as stated): a returned list that names a person has every one of
\* its facts in the lines appended to the file.
C23_Original ==
  (/\ result.op = "add_patient_information"
   /\ result.returned # <<>>
   /\ NamesPerson(result.returned))
    => \A i \in DOMAIN result.returned :
         \E j \in 2..Len(log) : log[j] = result.returned[i]

\* C24 (as stated): every value in the dictionary gather_missing_information
\* returns was submitted through the form and passes the validator of its
\* attribute.
C24_Original ==
  /\ result.op = "gather_missing_information" =>
       \A attr \in DOMAIN result.returned :
         result.submitted /\ validator(attr, result.returned[attr])
  /\ (result.op = "add_patient_information" /\ result.gathered) =>
       \A attr \in DOMAIN result.additional_info :
         result.submitted /\ validator(attr, result.additional_info[attr])

\* C27: when the extracted facts name no person, processing leaves the file
\* unchanged, add_patient_information returns the extracted facts, and
\* patient_name and patient_facts keep their values; when
\* add_patient_information raises internally it returns the empty list.
C27_NoPerson ==
  [][ProcessStep =>
       /\ ~NamesPerson(result'.initial_facts) =>
            /\ log' = log
            /\ result'.returned = result'.initial_facts
            /\ session'.patient_name = session.patient_name
            /\ session'.patient_facts = session.patient_facts
       /\ result'.raised => result'.returned = <<>>
    ]_vars

\* Facts without a person were processed while a patient was in the session.
C27_Witness ==
  /\ result.op = "process_patient_information"
  /\ result.initial_facts # <<>>
  /\ ~NamesPerson(result.initial_facts)
  /\ result.returned = result.initial_facts
  /\ Step2Offered

====
